---------------------------- MODULE Spec2Model ----------------------------
(***************************************************************************)
(* A model of the euca counter samples: the model and its update, the      *)
(* description tree (Dom / DomVec) and its linear iterator, the render     *)
(* functions of the two samples, and the application loop (attach,         *)
(* dispatch, detach) driving the reconciliation core (diff, patch) against *)
(* a live document.                                                        *)
(*                                                                         *)
(* Conventions.  Option<T> is a sequence of length 0 (None) or 1 (Some).   *)
(* A `&mut` reference into a description is the path of child indices      *)
(* leading to the node it points at; the boxed take / install closures of  *)
(* euca::Storage carry that path.  web_sys nodes and wasm closures are     *)
(* numbered handles into the live document `doc` and the table `closures`. *)
(*                                                                         *)
(* Specifications.  Spec runs attach, dispatch and detach as whole         *)
(* handlers; SpecSteps runs them statement by statement, with events and   *)
(* host rejections in between; SpecIter, SpecVec and SpecSlots exercise    *)
(* the iterator of a Dom, of a DomVec, and the storage slots on their own. *)
(***************************************************************************)
EXTENDS Integers, Sequences, FiniteSets, TLC

VARIABLES
    sample,     \* which sample crate runs: "crate" or "typed_html"
    phase,      \* "new", "attached", "detached" or "aborted"
    model,      \* Model.0, the counter (i32)
    dom,        \* App.dom, the retained description (a sequence of Dom)
    old_dom,    \* the description last replaced by dispatch, as it was dropped
    doc,        \* the live document: handle -> node
    original,   \* the children the mount had when run() found it
    closures,   \* the live listener closures: handle -> message it dispatches
    patch_set,  \* the patch set of the last diff
    last_msg,   \* Option: the message of the last dispatch (the debug! line)
    steps,      \* number of dispatches so far
    borrow,     \* the RefCell<App> borrow flag: "free" or "mut"
    active,     \* Option: the handler that holds the borrow, while it runs
    work,       \* Option: the applier state of the patch in progress
    tree,       \* a free-standing description, for the iterator on its own
    stream,     \* Option: the item stream collected from `tree`
    slot_op     \* Option: the last take / install called on a slot of `tree`

vars == <<sample, phase, model, dom, old_dom, doc, original, closures, patch_set,
          last_msg, steps, borrow, active, work, tree, stream, slot_op>>

appVars == <<sample, phase, model, dom, old_dom, doc, original, closures, patch_set,
             last_msg, steps>>

stepVars == <<borrow, active, work>>

iterVars == <<tree, stream, slot_op>>

-----------------------------------------------------------------------------
(* Bounds of the exploration.                                              *)

MaxDispatch == 3    \* dispatches explored after attach
MaxPrior == 2       \* children the mount holds before attach
MaxKids == 2        \* children per node of a free-standing description
MaxVec == 2         \* elements of a free-standing DomVec
MaxHandle == 2      \* handles a test installs into a free-standing description

-----------------------------------------------------------------------------
(* Model and Msg.                                                          *)

MaxI32 == 2147483647
MinI32 == (-2147483647) - 1

Msg == {"Increment", "Decrement"}

\* Model::new
Model_new == 0

\* Model values attach is started with: Model::new(), values around a change
\* of sign and of the number of digits, and the ends of i32.
StartModels == {Model_new, 9, -10, MaxI32, MinI32}

\* `self.0 += 1` / `self.0 -= 1` leave the range of i32
Overflows(n, msg) ==
    \/ msg = "Increment" /\ n = MaxI32
    \/ msg = "Decrement" /\ n = MinI32

Outcome(panicked, value) == [panicked |-> panicked, value |-> value]

\* faulty variant of update: Decrement leaves the value as it is
update_decrement_ignored(n, msg) ==
    IF Overflows(n, msg)
    THEN {Outcome(TRUE, n), Outcome(FALSE, IF msg = "Increment" THEN MinI32 ELSE MaxI32)}
    ELSE {Outcome(FALSE, IF msg = "Increment" THEN n + 1 ELSE n)}

\* impl euca::Update<Msg> for Model: the outcomes of one update.  On overflow
\* a build with overflow checks panics and leaves the value, a build without
\* them wraps around.
update(n, msg) ==
    IF Overflows(n, msg)
    THEN {Outcome(TRUE, n), Outcome(FALSE, IF msg = "Increment" THEN MinI32 ELSE MaxI32)}
    ELSE {Outcome(FALSE, IF msg = "Increment" THEN n + 1 ELSE n - 1)}

-----------------------------------------------------------------------------
(* i32::to_string: the decimal digits, most significant first, after a '-' *)
(* for a negative value.  Negative values are converted without negating   *)
(* them (MinI32 has no positive counterpart).                              *)

Digit(d) ==
    CASE d = 0 -> "0" [] d = 1 -> "1" [] d = 2 -> "2" [] d = 3 -> "3"
      [] d = 4 -> "4" [] d = 5 -> "5" [] d = 6 -> "6" [] d = 7 -> "7"
      [] d = 8 -> "8" [] d = 9 -> "9"

RECURSIVE PosDigits(_)
PosDigits(n) ==
    IF n < 10 THEN Digit(n) ELSE PosDigits(n \div 10) \o Digit(n % 10)

RECURSIVE NegDigits(_)
NegDigits(n) ==
    LET d == (10 - (n % 10)) % 10
        rest == (n + d) \div 10
    IN  IF rest = 0 THEN Digit(d) ELSE NegDigits(rest) \o Digit(d)

to_string(n) == IF n < 0 THEN "-" \o NegDigits(n) ELSE PosDigits(n)

-----------------------------------------------------------------------------
(* The description model.                                                  *)

None == <<>>
Some(x) == <<x>>

Node_Text(text) == [kind |-> "Text", text |-> text, node |-> None]
Node_Element(name) == [kind |-> "Element", name |-> name, node |-> None]

Event(trigger, message) ==
    [trigger |-> trigger, message |-> message, closure |-> None]

Dom(node, event, children) ==
    [node |-> node, event |-> event, children |-> children]

\* faulty variant of button: the click event sits on the text child
button_event_last(text, msg) ==
    Dom(Node_Element("button"), None,
        << Dom(Node_Text(text), Some(Event("click", msg)), <<>>) >>)

\* fn button
button(text, msg) ==
    Dom(Node_Element("button"), Some(Event("click", msg)),
        << Dom(Node_Text(text), None, <<>>) >>)

\* fn counter
counter(count) ==
    Dom(Node_Element("div"), None,
        << Dom(Node_Text(to_string(count)), None, <<>>) >>)

\* faulty variant of render_crate: the two buttons change places
render_crate_swapped(n) ==
    << button("-", "Decrement"), counter(n), button("+", "Increment") >>

\* impl euca::Render<DomVec<Msg>> for Model (src/crate): a DomVec of three
render_crate(n) ==
    << button("+", "Increment"), counter(n), button("-", "Decrement") >>

\* impl Render<Dom<Msg, Cmd>> for Model (src/crate.typed-html): one outer div.
\* The single Dom is held as a collection of one.
render_typed_html(n) ==
    << Dom(Node_Element("div"), None,
           << button("+", "Increment"), counter(n), button("-", "Decrement") >>) >>

render(s, n) == IF s = "crate" THEN render_crate(n) ELSE render_typed_html(n)

-----------------------------------------------------------------------------
(* The linear iterator.  An item is one of                                 *)
(*   [type |-> "Text", text, node]       [type |-> "Element", element, node] *)
(*   [type |-> "Event", trigger, handler, closure]       [type |-> "Up"]   *)
(* where node / closure is a euca::Storage: Read (a take closure) or Write *)
(* (an install closure) over the cell at `cell`.                           *)

Storage_Read(cell) == [rw |-> "Read", cell |-> cell]
Storage_Write(cell) == [rw |-> "Write", cell |-> cell]

\* match node { Some(_) => Storage::Read(..), None => Storage::Write(..) }
Storage(opt, cell) == IF opt # None THEN Storage_Read(cell) ELSE Storage_Write(cell)

DomItem_Up == [type |-> "Up"]

\* iter::once(&mut self.node).map(..)
NodeItem(node, cell) ==
    IF node.kind = "Text"
    THEN [type |-> "Text", text |-> node.text, node |-> Storage(node.node, cell)]
    ELSE [type |-> "Element", element |-> node.name, node |-> Storage(node.node, cell)]

\* self.event.iter_mut().map(..)
EventItems(event, cell) ==
    IF event = None THEN <<>>
    ELSE << [type |-> "Event", trigger |-> event[1].trigger,
             handler |-> event[1].message,
             closure |-> Storage(event[1].closure, cell)] >>

\* faulty variant of Dom_dom_iter: the event is yielded after the children
RECURSIVE Dom_dom_iter_events_last(_, _)
Dom_dom_iter_events_last(self, cell) ==
    LET RECURSIVE kids(_)
        kids(i) == IF i > Len(self.children) THEN <<>>
                   ELSE Dom_dom_iter_events_last(self.children[i], Append(cell, i)) \o kids(i + 1)
    IN  <<NodeItem(self.node, cell)>> \o kids(1) \o EventItems(self.event, cell)
            \o <<DomItem_Up>>

\* impl euca::DomIter<Message> for Dom<Message>: the node, its event, the
\* streams of its children in order, one Up
RECURSIVE Dom_dom_iter(_, _)
Dom_dom_iter(self, cell) ==
    LET RECURSIVE kids(_)
        kids(i) == IF i > Len(self.children) THEN <<>>
                   ELSE Dom_dom_iter(self.children[i], Append(cell, i)) \o kids(i + 1)
    IN  <<NodeItem(self.node, cell)>> \o EventItems(self.event, cell) \o kids(1)
            \o <<DomItem_Up>>

\* impl euca::DomIter<Message> for DomVec<Message>: flat_map over the elements
RECURSIVE DomVec_flat_map(_, _)
DomVec_flat_map(v, i) ==
    IF i > Len(v) THEN <<>>
    ELSE Dom_dom_iter(v[i], <<i>>) \o DomVec_flat_map(v, i + 1)

\* faulty variant of DomVec_dom_iter: the collection is yielded as one element
DomVec_dom_iter_enclosed(v) ==
    <<[type |-> "Element", element |-> "vec", node |-> Storage_Write(<<>>)]>>
        \o DomVec_flat_map(v, 1) \o <<DomItem_Up>>

DomVec_dom_iter(v) == DomVec_flat_map(v, 1)

\* euca::DomItem's PartialEq and Debug leave the storage out
StripItem(item) ==
    CASE item.type = "Text" -> [type |-> "Text", text |-> item.text]
      [] item.type = "Element" -> [type |-> "Element", element |-> item.element]
      [] item.type = "Event" -> [type |-> "Event", trigger |-> item.trigger,
                                 handler |-> item.handler]
      [] item.type = "Up" -> DomItem_Up

Strip(items) == [i \in 1..Len(items) |-> StripItem(items[i])]

-----------------------------------------------------------------------------
(* Cells of a description, reached through the references the items carry. *)

RECURSIVE GetDom(_, _)
GetDom(d, path) ==
    IF path = <<>> THEN d ELSE GetDom(d.children[Head(path)], Tail(path))

\* the Option a node cell or a closure cell of description v holds
GetCell(v, cell, which) ==
    LET d == GetDom(v[Head(cell)], Tail(cell))
    IN  IF which = "node" THEN d.node.node ELSE d.event[1].closure

RECURSIVE SetDomCell(_, _, _, _)
SetDomCell(d, path, which, opt) ==
    IF path = <<>>
    THEN IF which = "node" THEN [d EXCEPT !.node.node = opt]
         ELSE [d EXCEPT !.event[1].closure = opt]
    ELSE [d EXCEPT !.children[Head(path)] = SetDomCell(@, Tail(path), which, opt)]

SetCell(v, cell, which, opt) ==
    [v EXCEPT ![Head(cell)] = SetDomCell(@, Tail(cell), which, opt)]

\* faulty variant of Storage_take: the cell keeps the handle it hands out
Storage_take_keeps(v, storage, which) ==
    [handle |-> GetCell(v, storage.cell, which)[1], dom |-> v]

\* calling the closure of a Storage::Read, move || node.take().unwrap(): the
\* handle is returned and the cell in description v is left empty
Storage_take(v, storage, which) ==
    [handle |-> GetCell(v, storage.cell, which)[1],
     dom |-> SetCell(v, storage.cell, which, None)]

\* faulty variant of Storage_install: the handle is dropped, the cell stays empty
Storage_install_drops(v, storage, which, h) == v

\* calling the closure of a Storage::Write, move |n| *node = Some(n)
Storage_install(v, storage, which, h) == SetCell(v, storage.cell, which, Some(h))

\* the node handles / closure handles a description holds, in stream order
RECURSIVE DomHandles(_, _)
DomHandles(d, which) ==
    LET RECURSIVE kids(_)
        kids(i) == IF i > Len(d.children) THEN <<>>
                   ELSE DomHandles(d.children[i], which) \o kids(i + 1)
        own == IF which = "node" THEN d.node.node
               ELSE IF d.event = None THEN <<>> ELSE d.event[1].closure
    IN  own \o kids(1)

RECURSIVE Handles(_, _)
Handles(v, which) ==
    IF v = <<>> THEN <<>> ELSE DomHandles(Head(v), which) \o Handles(Tail(v), which)

\* the number of node cells / closure cells of a description
RECURSIVE DomCells(_, _)
DomCells(d, which) ==
    LET RECURSIVE kids(_)
        kids(i) == IF i > Len(d.children) THEN 0
                   ELSE DomCells(d.children[i], which) + kids(i + 1)
        own == IF which = "node" THEN 1 ELSE Len(d.event)
    IN  own + kids(1)

RECURSIVE Cells(_, _)
Cells(v, which) ==
    IF v = <<>> THEN 0 ELSE DomCells(Head(v), which) + Cells(Tail(v), which)

-----------------------------------------------------------------------------
(* euca::diff: two item streams in, a patch set out.  Positional, depth    *)
(* first, single pass.  A patch carries the storage of the items it was    *)
(* made from: `take` a Read storage of the old stream, `store` a Write     *)
(* storage of the new one.                                                 *)

IsOpener(item) == item.type \in {"Text", "Element"}

\* the index of the Up that closes the opener at s[i]
RECURSIVE MatchUpFrom(_, _, _)
MatchUpFrom(s, k, depth) ==
    IF k > Len(s) THEN Len(s)
    ELSE IF IsOpener(s[k]) THEN MatchUpFrom(s, k + 1, depth + 1)
    ELSE IF s[k].type = "Up"
         THEN IF depth = 1 THEN k ELSE MatchUpFrom(s, k + 1, depth - 1)
    ELSE MatchUpFrom(s, k + 1, depth)

MatchUp(s, i) == MatchUpFrom(s, i + 1, 1)

Patch_ParentUp == [op |-> "ParentUp"]

\* old absent: the patch that creates one new item
CreatePatch(n) ==
    CASE n.type = "Element" ->
            [op |-> "CreateElement", element |-> n.element, store |-> n.node]
      [] n.type = "Text" ->
            [op |-> "CreateText", text |-> n.text, store |-> n.node]
      [] n.type = "Event" ->
            [op |-> "AddListener", trigger |-> n.trigger, message |-> n.handler,
             store |-> n.closure]
      [] n.type = "Up" -> Patch_ParentUp

\* new absent: the patch that removes one old item
RemovePatch(o) ==
    CASE o.type = "Element" -> [op |-> "RemoveElement", take |-> o.node]
      [] o.type = "Text" -> [op |-> "RemoveText", take |-> o.node]
      [] o.type = "Event" ->
            [op |-> "RemoveListener", trigger |-> o.trigger, take |-> o.closure]
      [] o.type = "Up" -> Patch_ParentUp

\* a new subtree created wholesale: items j..e of the new stream
RECURSIVE CreateRange(_, _, _)
CreateRange(n, j, e) ==
    IF j > e THEN <<>> ELSE <<CreatePatch(n[j])>> \o CreateRange(n, j + 1, e)

RECURSIVE DiffFrom(_, _, _, _)
DiffFrom(o, n, i, j) ==
    LET oa == i > Len(o)
        na == j > Len(n)
    IN
    IF oa /\ na THEN <<>>
    ELSE IF oa THEN <<CreatePatch(n[j])>> \o DiffFrom(o, n, i, j + 1)
    ELSE IF na THEN
        \* an old element goes with its whole subtree, which is skipped
        IF o[i].type = "Element"
        THEN <<RemovePatch(o[i])>> \o DiffFrom(o, n, MatchUp(o, i) + 1, j)
        ELSE <<RemovePatch(o[i])>> \o DiffFrom(o, n, i + 1, j)
    ELSE
    LET a == o[i]
        b == n[j]
    IN
    CASE a.type = "Element" /\ b.type = "Element" ->
            IF a.element = b.element
            THEN <<[op |-> "Retain", take |-> a.node, store |-> b.node]>>
                    \o DiffFrom(o, n, i + 1, j + 1)
            ELSE <<[op |-> "ReplaceElement", take |-> a.node,
                    element |-> b.element, store |-> b.node]>>
                    \o CreateRange(n, j + 1, MatchUp(n, j))
                    \o DiffFrom(o, n, MatchUp(o, i) + 1, MatchUp(n, j) + 1)
      [] a.type = "Text" /\ b.type = "Text" ->
            (IF a.text = b.text
             THEN <<[op |-> "RetainText", take |-> a.node, store |-> b.node]>>
             ELSE <<[op |-> "UpdateText", take |-> a.node, store |-> b.node,
                     text |-> b.text]>>)
                \o DiffFrom(o, n, i + 1, j + 1)
      [] a.type = "Event" /\ b.type = "Event" ->
            (IF a.trigger = b.trigger
             THEN <<[op |-> "RetainListener", take |-> a.closure,
                     store |-> b.closure, message |-> b.handler]>>
             ELSE <<RemovePatch(a), CreatePatch(b)>>)
                \o DiffFrom(o, n, i + 1, j + 1)
      [] a.type = "Up" /\ b.type = "Up" ->
            <<Patch_ParentUp>> \o DiffFrom(o, n, i + 1, j + 1)
      \* a text against an element and the reverse: remove, then insert
      [] IsOpener(a) /\ IsOpener(b) /\ a.type # b.type ->
            <<RemovePatch(a)>> \o CreateRange(n, j, MatchUp(n, j))
                \o DiffFrom(o, n, MatchUp(o, i) + 1, MatchUp(n, j) + 1)
      \* surplus old items under a parent the new stream has closed
      [] IsOpener(a) /\ b.type \in {"Up", "Event"} ->
            IF b.type = "Up"
            THEN <<RemovePatch(a)>> \o DiffFrom(o, n, MatchUp(o, i) + 1, j)
            ELSE <<CreatePatch(b)>> \o DiffFrom(o, n, i, j + 1)
      [] a.type = "Event" /\ b.type # "Event" ->
            <<RemovePatch(a)>> \o DiffFrom(o, n, i + 1, j)
      \* surplus new items under a parent the old stream has closed
      [] a.type = "Up" /\ IsOpener(b) ->
            CreateRange(n, j, MatchUp(n, j)) \o DiffFrom(o, n, i, MatchUp(n, j) + 1)
      [] a.type = "Up" /\ b.type = "Event" ->
            <<CreatePatch(b)>> \o DiffFrom(o, n, i, j + 1)

diff(old, new) == DiffFrom(old, new, 1, 1)

-----------------------------------------------------------------------------
(* The live document.  A node is an element or a text node; an element     *)
(* lists its children in order and the listeners registered on it.         *)

Mount == 0

ElementNode(name) ==
    [kind |-> "Element", name |-> name, text |-> "", children |-> <<>>,
     listeners |-> <<>>]

TextNode(text) ==
    [kind |-> "Text", name |-> "", text |-> text, children |-> <<>>,
     listeners |-> <<>>]

Listener(trigger, closure) == [trigger |-> trigger, closure |-> closure]

\* a closure created by the applier: it dispatches (a clone of) its message
Closure(message) == [message |-> message, dropped |-> FALSE]

\* a fresh handle: nodes and closures are numbered in order of creation
NewHandle(table) == Cardinality(DOMAIN table)

Without(seq, x) == SelectSeq(seq, LAMBDA y : y # x)

Replaced(seq, x, y) == [i \in 1..Len(seq) |-> IF seq[i] = x THEN y ELSE seq[i]]

\* the nodes below h in the document, h included
RECURSIVE Below(_, _)
Below(d, h) ==
    {h} \cup UNION {Below(d, d[h].children[i]) : i \in 1..Len(d[h].children)}

\* the nodes in the live tree under the mount
Live(d) == Below(d, Mount)

-----------------------------------------------------------------------------
(* euca::patch: the patch set applied in order against the mount.  The     *)
(* applier state is the document, the closures, the two descriptions the   *)
(* storages point into, and the cursor stack of open parents.              *)

PatchState(d, cl, old, new, parent) ==
    [doc |-> d, closures |-> cl, old |-> old, new |-> new,
     stack |-> <<parent>>, failed |-> FALSE]

Takes(op) == op.op \in {"RemoveElement", "RemoveText", "RemoveListener", "Retain",
                        "RetainText", "UpdateText", "RetainListener",
                        "ReplaceElement"}

Stores(op) == op.op \in {"CreateElement", "CreateText", "AddListener", "Retain",
                         "RetainText", "UpdateText", "RetainListener",
                         "ReplaceElement"}

CellKind(op) ==
    IF op.op \in {"AddListener", "RemoveListener", "RetainListener"}
    THEN "closure" ELSE "node"

\* what the applier relies on; anything else is a contract violation
Applicable(st, op) ==
    /\ ~st.failed
    /\ Len(st.stack) >= (IF op.op = "ParentUp" THEN 2 ELSE 1)
    /\ Takes(op) => /\ op.take.rw = "Read"
                    /\ GetCell(st.old, op.take.cell, CellKind(op)) # None
    /\ Stores(op) => op.store.rw = "Write"

ApplyPatch(st, op) ==
    LET top == st.stack[Len(st.stack)]
        kind == CellKind(op)
        \* take(): the handle leaves the old description
        taken == Storage_take(st.old, op.take, kind).handle
        oldT == Storage_take(st.old, op.take, kind).dom
        \* install(h): the handle enters the new description
        newS(h) == Storage_install(st.new, op.store, kind, h)
        h == NewHandle(st.doc)
        c == NewHandle(st.closures)
    IN
    CASE op.op = "CreateElement" ->
            [st EXCEPT !.doc = [@ EXCEPT ![top].children = Append(@, h)]
                                    @@ (h :> ElementNode(op.element)),
                       !.new = newS(h),
                       !.stack = Append(@, h)]
      [] op.op = "CreateText" ->
            [st EXCEPT !.doc = [@ EXCEPT ![top].children = Append(@, h)]
                                    @@ (h :> TextNode(op.text)),
                       !.new = newS(h),
                       !.stack = Append(@, h)]
      [] op.op = "AddListener" ->
            [st EXCEPT !.doc = [@ EXCEPT ![top].listeners =
                                            Append(@, Listener(op.trigger, c))],
                       !.closures = @ @@ (c :> Closure(op.message)),
                       !.new = newS(c)]
      [] op.op = "ParentUp" ->
            [st EXCEPT !.stack = SubSeq(@, 1, Len(@) - 1)]
      [] op.op = "Retain" ->
            [st EXCEPT !.old = oldT, !.new = newS(taken),
                       !.stack = Append(@, taken)]
      [] op.op = "RetainText" ->
            [st EXCEPT !.old = oldT, !.new = newS(taken),
                       !.stack = Append(@, taken)]
      [] op.op = "UpdateText" ->
            [st EXCEPT !.doc = [@ EXCEPT ![taken].text = op.text],
                       !.old = oldT, !.new = newS(taken),
                       !.stack = Append(@, taken)]
      [] op.op = "RetainListener" ->
            [st EXCEPT !.closures = [@ EXCEPT ![taken].message = op.message],
                       !.old = oldT, !.new = newS(taken)]
      [] op.op = "RemoveElement" ->
            [st EXCEPT !.doc = [@ EXCEPT ![top].children = Without(@, taken)],
                       !.old = oldT]
      [] op.op = "RemoveText" ->
            [st EXCEPT !.doc = [@ EXCEPT ![top].children = Without(@, taken)],
                       !.old = oldT,
                       !.stack = Append(@, taken)]
      [] op.op = "RemoveListener" ->
            [st EXCEPT !.doc = [@ EXCEPT ![top].listeners =
                                    Without(@, Listener(op.trigger, taken))],
                       !.closures = [@ EXCEPT ![taken].dropped = TRUE],
                       !.old = oldT]
      [] op.op = "ReplaceElement" ->
            [st EXCEPT !.doc = [@ EXCEPT ![top].children = Replaced(@, taken, h)]
                                    @@ (h :> ElementNode(op.element)),
                       !.old = oldT, !.new = newS(h),
                       !.stack = Append(@, h)]

RECURSIVE PatchFrom(_, _, _)
PatchFrom(st, ops, k) ==
    IF k > Len(ops) THEN st
    ELSE IF ~Applicable(st, ops[k]) THEN [st EXCEPT !.failed = TRUE]
    ELSE PatchFrom(ApplyPatch(st, ops[k]), ops, k + 1)

patch(st, ops) == PatchFrom(st, ops, 1)

-----------------------------------------------------------------------------
(* The application loop.  Each operation is one synchronous handler: it    *)
(* holds the RefCell borrow of the App from start to end.                  *)

App(m, v, dropped, d, cl, ps, failed) ==
    [model |-> m, dom |-> v, old_dom |-> dropped, doc |-> d, closures |-> cl,
     patch_set |-> ps, failed |-> failed]

\* fn attach: render the model, diff the empty stream against it, patch
attach(s, parent, m, d, cl) ==
    LET new_dom == render(s, m)
        n == DomVec_dom_iter(new_dom)
        ps == diff(<<>>, n)
        r == patch(PatchState(d, cl, <<>>, new_dom, parent), ps)
    IN  App(m, r.new, <<>>, r.doc, r.closures, ps, r.failed)

\* faulty variant of dispatch: the App keeps the old dom and drops the new one
dispatch_keeps_old_dom(s, parent, app, msg, out) ==
    LET new_dom == render(s, out.value)
        old == DomVec_dom_iter(app.dom)
        new == DomVec_dom_iter(new_dom)
        ps == diff(old, new)
        r == patch(PatchState(app.doc, app.closures, app.dom, new_dom, parent), ps)
    IN  IF out.panicked THEN [app EXCEPT !.failed = TRUE]
        ELSE App(out.value, r.old, r.new, r.doc, r.closures, ps, r.failed)

\* faulty variant of dispatch: renders the model as it was before the update
dispatch_renders_stale_model(s, parent, app, msg, out) ==
    LET new_dom == render(s, app.model)
        old == DomVec_dom_iter(app.dom)
        new == DomVec_dom_iter(new_dom)
        ps == diff(old, new)
        r == patch(PatchState(app.doc, app.closures, app.dom, new_dom, parent), ps)
    IN  IF out.panicked THEN [app EXCEPT !.failed = TRUE]
        ELSE App(out.value, r.new, r.old, r.doc, r.closures, ps, r.failed)

\* faulty variant of dispatch: diffs the empty stream against the new dom
dispatch_diffs_against_empty(s, parent, app, msg, out) ==
    LET new_dom == render(s, out.value)
        new == DomVec_dom_iter(new_dom)
        ps == diff(<<>>, new)
        r == patch(PatchState(app.doc, app.closures, app.dom, new_dom, parent), ps)
    IN  IF out.panicked THEN [app EXCEPT !.failed = TRUE]
        ELSE App(out.value, r.new, r.old, r.doc, r.closures, ps, r.failed)

\* App::dispatch: update the model (out is the outcome of the update), render
\* a new dom, diff the retained dom against it, patch, retain the new dom.
\* The replaced dom is dropped; old_dom records it as it was then.
dispatch(s, parent, app, msg, out) ==
    LET new_dom == render(s, out.value)
        old == DomVec_dom_iter(app.dom)
        new == DomVec_dom_iter(new_dom)
        ps == diff(old, new)
        r == patch(PatchState(app.doc, app.closures, app.dom, new_dom, parent), ps)
    IN  IF out.panicked THEN [app EXCEPT !.failed = TRUE]
        ELSE App(out.value, r.new, r.old, r.doc, r.closures, ps, r.failed)

\* faulty variant of detach: diffs the empty stream against itself
detach_removes_nothing(s, parent, app) ==
    LET ps == diff(<<>>, <<>>)
        r == patch(PatchState(app.doc, app.closures, app.dom, <<>>, parent), ps)
    IN  App(app.model, r.old, app.old_dom, r.doc, r.closures, ps, r.failed)

\* App::detach: diff the retained dom against the empty stream, patch.  The
\* App keeps its dom.
detach(s, parent, app) ==
    LET o == DomVec_dom_iter(app.dom)
        ps == diff(o, <<>>)
        r == patch(PatchState(app.doc, app.closures, app.dom, <<>>, parent), ps)
    IN  App(app.model, r.old, app.old_dom, r.doc, r.closures, ps, r.failed)

-----------------------------------------------------------------------------
(* The state machine of a running sample.                                  *)

Samples == {"crate", "typed_html"}

\* the mount as run() finds it: <main> with k children of its own
MountDoc(k) ==
    [h \in 0..k |->
        IF h = Mount
        THEN [ElementNode("main") EXCEPT !.children = [i \in 1..k |-> i]]
        ELSE TextNode("prior")]

IdleTree == Dom(Node_Text(""), None, <<>>)

Init ==
    /\ sample \in Samples
    /\ phase = "new"
    /\ model \in StartModels
    /\ dom = <<>>
    /\ old_dom = <<>>
    /\ \E k \in 0..MaxPrior : doc = MountDoc(k)
    /\ original = doc[Mount].children
    /\ closures = <<>>
    /\ patch_set = <<>>
    /\ last_msg = None
    /\ steps = 0
    /\ borrow = "free"
    /\ active = None
    /\ work = None
    /\ tree = IdleTree
    /\ stream = None
    /\ slot_op = None

CurrentApp == App(model, dom, old_dom, doc, closures, patch_set, FALSE)

Install(app, next_phase) ==
    /\ phase' = IF app.failed THEN "aborted" ELSE next_phase
    /\ model' = app.model
    /\ dom' = app.dom
    /\ old_dom' = app.old_dom
    /\ doc' = app.doc
    /\ closures' = app.closures
    /\ patch_set' = app.patch_set

\* run(): attach(parent, model)
Attach ==
    /\ phase = "new"
    /\ Install(attach(sample, Mount, model, doc, closures), "attached")
    /\ UNCHANGED <<sample, original, last_msg, steps, stepVars, iterVars>>

\* the listeners a user can trigger: those on nodes of the live tree
Clickable ==
    {l \in UNION {{doc[h].listeners[i] : i \in 1..Len(doc[h].listeners)} :
                    h \in Live(doc)} :
        l.trigger = "click" /\ ~closures[l.closure].dropped}

\* a click: the closure calls App::dispatch with a clone of its message
Dispatch ==
    /\ phase = "attached"
    /\ steps < MaxDispatch
    /\ \E l \in Clickable :
        LET msg == closures[l.closure].message
        IN  \E out \in update(model, msg) :
                /\ Install(dispatch(sample, Mount, CurrentApp, msg, out), "attached")
                /\ last_msg' = Some(msg)
    /\ steps' = steps + 1
    /\ UNCHANGED <<sample, original, stepVars, iterVars>>

Detach ==
    /\ phase = "attached"
    /\ Install(detach(sample, Mount, CurrentApp), "detached")
    /\ UNCHANGED <<sample, original, last_msg, steps, stepVars, iterVars>>

Next == Attach \/ Dispatch \/ Detach

Spec == Init /\ [][Next]_vars

-----------------------------------------------------------------------------
(* The same handlers statement by statement: the call up to euca::patch,   *)
(* the patch one operation at a time, the return that releases the borrow. *)
(* An event may be delivered, detach may be called and the host may reject *)
(* a mutation at any point in between.                                     *)

\* faulty variant of borrow_mut: the borrow is handed out unchecked
borrow_mut_unchecked(b) == [panicked |-> FALSE, borrow |-> "mut"]

\* RefCell::borrow_mut: panics when the cell is already borrowed
borrow_mut(b) == [panicked |-> b # "free", borrow |-> "mut"]

Handler(name, msg) == [handler |-> name, msg |-> msg]

\* the applier at work: its state, the index of its next operation, the
\* document as the patch found it, whether the host rejected an operation
Work(st, k, before) == [st |-> st, k |-> k, before |-> before, rejected |-> FALSE]

\* the handler h, holding the borrow, calls euca::patch on patch set ps
StartPatch(h, old, new, ps) ==
    /\ borrow' = "mut"
    /\ active' = Some(h)
    /\ patch_set' = ps
    /\ work' = Some(Work(PatchState(doc, closures, old, new, Mount), 1, doc))

\* run() calls attach: render, App::new, borrow_mut, dom_iter, diff
CallAttach ==
    /\ phase = "new"
    /\ active = None
    /\ LET new_dom == render(sample, model)
       IN  /\ ~borrow_mut(borrow).panicked
           /\ dom' = new_dom
           /\ StartPatch(Handler("attach", None), <<>>, new_dom,
                         diff(<<>>, DomVec_dom_iter(new_dom)))
    /\ UNCHANGED <<sample, phase, model, old_dom, doc, original, closures,
                   last_msg, steps, iterVars>>

\* the host delivers a click to a listener of the live tree: its closure
\* calls App::dispatch, which logs the message, borrows the App, updates the
\* model, renders and diffs
DeliverClick ==
    /\ phase # "aborted"
    /\ steps < MaxDispatch
    /\ \E l \in Clickable :
        LET msg == closures[l.closure].message
            b == borrow_mut(borrow)
        IN  /\ last_msg' = Some(msg)
            /\ IF b.panicked
               THEN /\ phase' = "aborted"
                    /\ UNCHANGED <<model, patch_set, stepVars>>
               ELSE \E out \in update(model, msg) :
                      IF out.panicked
                      THEN /\ phase' = "aborted"
                           /\ borrow' = b.borrow
                           /\ active' = Some(Handler("dispatch", Some(msg)))
                           /\ UNCHANGED <<model, patch_set, work>>
                      ELSE LET new_dom == render(sample, out.value)
                           IN  /\ model' = out.value
                               /\ StartPatch(Handler("dispatch", Some(msg)),
                                             dom, new_dom,
                                             diff(DomVec_dom_iter(dom),
                                                  DomVec_dom_iter(new_dom)))
                               /\ UNCHANGED phase
    /\ steps' = steps + 1
    /\ UNCHANGED <<sample, dom, old_dom, doc, original, closures, iterVars>>

\* App::detach is called: borrow_mut, dom_iter, diff against the empty stream
CallDetach ==
    /\ phase = "attached"
    /\ IF borrow_mut(borrow).panicked
       THEN /\ phase' = "aborted"
            /\ UNCHANGED <<patch_set, stepVars>>
       ELSE /\ StartPatch(Handler("detach", None), dom, <<>>,
                          diff(DomVec_dom_iter(dom), <<>>))
            /\ UNCHANGED phase
    /\ UNCHANGED <<sample, model, dom, old_dom, doc, original, closures,
                   last_msg, steps, iterVars>>

\* the applier executes its next operation; app.dom is the new description
\* in attach and the old one in dispatch and detach
PatchStep ==
    /\ phase # "aborted"
    /\ work # None
    /\ work[1].k <= Len(patch_set)
    /\ LET w == work[1]
           op == patch_set[w.k]
           st == ApplyPatch(w.st, op)
       IN  IF Applicable(w.st, op)
           THEN /\ work' = Some([w EXCEPT !.st = st, !.k = @ + 1])
                /\ doc' = st.doc
                /\ closures' = st.closures
                /\ dom' = IF active[1].handler = "attach" THEN st.new ELSE st.old
                /\ UNCHANGED phase
           ELSE /\ phase' = "aborted"
                /\ UNCHANGED <<work, doc, closures, dom>>
    /\ UNCHANGED <<sample, model, old_dom, original, patch_set, last_msg, steps,
                   borrow, active, iterVars>>

\* the operations that mutate the live document
HostOp(op) == op.op \notin {"ParentUp", "Retain", "RetainText", "RetainListener"}

\* the host rejects the applier's next operation: the applier fails fast
HostRejects ==
    /\ phase # "aborted"
    /\ work # None
    /\ work[1].k <= Len(patch_set)
    /\ HostOp(patch_set[work[1].k])
    /\ phase' = "aborted"
    /\ work' = Some([work[1] EXCEPT !.rejected = TRUE])
    /\ UNCHANGED <<sample, model, dom, old_dom, doc, original, closures, patch_set,
                   last_msg, steps, borrow, active, iterVars>>

\* euca::patch returns, the handler ends and its borrow is released;
\* dispatch first stores new_dom in app.dom, dropping the old description
Return ==
    /\ phase # "aborted"
    /\ work # None
    /\ work[1].k > Len(patch_set)
    /\ borrow' = "free"
    /\ active' = None
    /\ work' = None
    /\ CASE active[1].handler = "attach" ->
                phase' = "attached" /\ UNCHANGED <<dom, old_dom>>
         [] active[1].handler = "dispatch" ->
                /\ dom' = work[1].st.new
                /\ old_dom' = work[1].st.old
                /\ UNCHANGED phase
         [] active[1].handler = "detach" ->
                phase' = "detached" /\ UNCHANGED <<dom, old_dom>>
    /\ UNCHANGED <<sample, model, doc, original, closures, patch_set, last_msg,
                   steps, iterVars>>

NextSteps ==
    CallAttach \/ DeliverClick \/ CallDetach \/ PatchStep \/ HostRejects \/ Return

SpecSteps == Init /\ [][NextSteps]_vars

-----------------------------------------------------------------------------
(* Properties of the running samples.                                      *)

I_Element(name) == [type |-> "Element", element |-> name]
I_Text(text) == [type |-> "Text", text |-> text]
I_Event(trigger, msg) == [type |-> "Event", trigger |-> trigger, handler |-> msg]

\* the stream of button("+", Increment), counter(n), button("-", Decrement)
ReferenceStream(n) ==
    << I_Element("button"), I_Event("click", "Increment"), I_Text("+"),
       DomItem_Up, DomItem_Up,
       I_Element("div"), I_Text(to_string(n)), DomItem_Up, DomItem_Up,
       I_Element("button"), I_Event("click", "Decrement"), I_Text("-"),
       DomItem_Up, DomItem_Up >>

\* a patch without the storages it carries
PatchShape(op) ==
    CASE op.op \in {"CreateElement", "ReplaceElement"} ->
            [op |-> op.op, element |-> op.element]
      [] op.op \in {"CreateText", "UpdateText"} -> [op |-> op.op, text |-> op.text]
      [] op.op \in {"AddListener", "RetainListener"} ->
            [op |-> op.op, message |-> op.message]
      [] OTHER -> [op |-> op.op]

PatchShapes(ops) == [k \in 1..Len(ops) |-> PatchShape(ops[k])]

P_CreateElement(name) == [op |-> "CreateElement", element |-> name]
P_CreateText(text) == [op |-> "CreateText", text |-> text]
P_AddListener(msg) == [op |-> "AddListener", message |-> msg]

\* create "+" button, add listener, create text "+", up, up, create middle
\* div, create text "0", up, up, create "-" button, add listener, create
\* text "-", up, up
MountPatchesInner ==
    << P_CreateElement("button"), P_AddListener("Increment"), P_CreateText("+"),
       Patch_ParentUp, Patch_ParentUp,
       P_CreateElement("div"), P_CreateText("0"), Patch_ParentUp, Patch_ParentUp,
       P_CreateElement("button"), P_AddListener("Decrement"), P_CreateText("-"),
       Patch_ParentUp, Patch_ParentUp >>

MountPatchesWithOuterDiv ==
    <<P_CreateElement("div")>> \o MountPatchesInner \o <<Patch_ParentUp>>

InitialMountOfZero ==
    phase = "attached" /\ steps = 0 /\ model = 0 /\ original = <<>>

\* C1: every completed update moves the model by exactly one step: Increment
\* from n < MaxI32 leaves n + 1, Decrement from n > MinI32 leaves n - 1 (so
\* from 0 they leave 1 and -1); the step changes nothing but the app's state.
C1_UpdateMovesOneStep ==
    [][ (steps' = steps + 1 /\ phase' = "attached") =>
            /\ (last_msg' = Some("Increment") /\ model < MaxI32) => model' = model + 1
            /\ (last_msg' = Some("Decrement") /\ model > MinI32) => model' = model - 1
            /\ (model = 0 /\ last_msg' = Some("Increment")) => model' = 1
            /\ (model = 0 /\ last_msg' = Some("Decrement")) => model' = -1
            /\ last_msg' \in {Some("Increment"), Some("Decrement")}
            /\ sample' = sample /\ original' = original ]_vars

C1_Witness ==
    phase = "attached" /\ steps = 1 /\ last_msg = Some("Decrement") /\ model = -1

\* C2: for every model value n the stream of render(n), storages left out,
\* is the reference stream of button("+", Increment), counter(n),
\* button("-", Decrement); the typed-html render is the same inside one div.
C2_RenderMatchesReference ==
    /\ Strip(DomVec_dom_iter(render_crate(model))) = ReferenceStream(model)
    /\ Strip(DomVec_dom_iter(render_typed_html(model)))
          = <<I_Element("div")>> \o ReferenceStream(model) \o <<DomItem_Up>>
    /\ Len(DomVec_dom_iter(render_crate(model))) = 14
    /\ model = 0 => ReferenceStream(model)[7] = I_Text("0")
    /\ model = -11 => ReferenceStream(model)[7] = I_Text("-11")
    /\ model = MinI32 => ReferenceStream(model)[7] = I_Text("-2147483648")

C2_Witness ==
    /\ phase = "attached" /\ sample = "crate" /\ model = -11
    /\ Strip(DomVec_dom_iter(dom)) = ReferenceStream(-11)

\* C3 as stated: attaching with model 0 against an empty mount gives the
\* sixteen patches that start with the creation of an outer div.
C3_Original ==
    InitialMountOfZero => PatchShapes(patch_set) = MountPatchesWithOuterDiv

\* C3 amended: the patch set starts with the outer div and ends with its up
\* only in the typed-html sample; the crate sample renders the three widgets
\* without an outer div, and its patch set is the fourteen patches in between.
C3_InitialMountPatches ==
    InitialMountOfZero =>
        /\ sample = "typed_html" => PatchShapes(patch_set) = MountPatchesWithOuterDiv
        /\ sample = "crate" => PatchShapes(patch_set) = MountPatchesInner

C3_Witness ==
    InitialMountOfZero /\ sample = "crate" /\ Len(patch_set) = 14

\* the nodes the core has put under the mount, in document order
Created == SubSeq(doc[Mount].children, Len(original) + 1, Len(doc[Mount].children))

\* the text node under the counter element, found in the live document
LiveCounterText ==
    IF sample = "crate" THEN doc[Created[2]].children[1]
    ELSE doc[doc[Created[1]].children[2]].children[1]

\* the handle the text slot under the counter element holds, as an Option
CounterTextSlot(v) ==
    IF sample = "crate" THEN v[2].children[1].node.node
    ELSE v[1].children[2].children[1].node.node

\* the live tree under node h, read back as an item stream
RECURSIVE LiveStream(_)
LiveStream(h) ==
    LET n == doc[h]
        RECURSIVE kids(_)
        kids(i) == IF i > Len(n.children) THEN <<>>
                   ELSE LiveStream(n.children[i]) \o kids(i + 1)
        events == [i \in 1..Len(n.listeners) |->
                     I_Event(n.listeners[i].trigger,
                             closures[n.listeners[i].closure].message)]
    IN  <<IF n.kind = "Text" THEN I_Text(n.text) ELSE I_Element(n.name)>>
            \o events \o kids(1) \o <<DomItem_Up>>

RECURSIVE LiveStreams(_)
LiveStreams(hs) ==
    IF hs = <<>> THEN <<>> ELSE LiveStream(Head(hs)) \o LiveStreams(Tail(hs))

Range(seq) == {seq[i] : i \in 1..Len(seq)}

\* every Text and Element slot of v holds a handle to a node of the live tree
AllNodeSlotsLive(v) ==
    /\ Cells(v, "node") > 0
    /\ Len(Handles(v, "node")) = Cells(v, "node")
    /\ Range(Handles(v, "node")) \subseteq Live(doc)

\* no slot of v holds a handle
Consumed(v) == Handles(v, "node") = <<>> /\ Handles(v, "closure") = <<>>

\* C5 as stated: after the patch of attach, of each dispatch and of detach
\* every Text and Element slot of app.dom holds a handle to a live node.
C5_Original ==
    phase \in {"attached", "detached"} => AllNodeSlotsLive(dom)

\* C5 amended: after the patch of attach and of each dispatch every Text and
\* Element slot of app.dom holds a handle to a live node; detach takes handles
\* out of app.dom, which the App keeps, and leaves none of its nodes live.
C5_RetainedSlotsOccupied ==
    /\ phase = "attached" => AllNodeSlotsLive(dom)
    /\ phase = "detached" =>
          /\ Len(Handles(dom, "node")) < Cells(dom, "node")
          /\ Range(Handles(dom, "node")) \cap Live(doc) = {}

C5_Witness ==
    phase = "attached" /\ steps = 2 /\ AllNodeSlotsLive(dom) /\ Consumed(old_dom)

\* C6: after a patch the old description is fully consumed: the description
\* dispatch replaces and the description detach tears down hold no node
\* handle and no closure.
C6_OldFullyConsumed ==
    /\ (phase = "attached" /\ steps > 0) => Consumed(old_dom)
    /\ phase = "detached" => Consumed(dom)

\* C7: attach and dispatch leave the mount's prior children in place and
\* untouched, and after detach the mount has exactly its original children.
C7_MountRestored ==
    /\ \A i \in 1..Len(original) : doc[original[i]] = TextNode("prior")
    /\ phase \in {"new", "detached"} => doc[Mount].children = original
    /\ phase = "attached" =>
          /\ SubSeq(doc[Mount].children, 1, Len(original)) = original
          /\ Created # <<>>
          /\ Range(Created) \cap Range(original) = {}

C7_Witness ==
    /\ phase = "detached" /\ steps >= 2 /\ Len(original) = 2
    /\ doc[Mount].children = original
    /\ Cardinality(DOMAIN doc) > 3

RemoveElements(ops) == SelectSeq(ops, LAMBDA op : op.op = "RemoveElement")

\* C8: after attach then detach the detach patch set holds exactly one
\* RemoveElement, for the outer div, and every listener closure installed at
\* attach is deregistered and dropped: no closure slot still holds one.
C8_DetachAfterMount ==
    (phase = "detached" /\ steps = 0) =>
        /\ Len(RemoveElements(patch_set)) = 1
        /\ dom[1].node.name = "div" /\ RemoveElements(patch_set)[1].take.cell = <<1>>
        /\ \A c \in DOMAIN closures : closures[c].dropped
        /\ Handles(dom, "closure") = <<>>

\* C9: a dispatch moves every node handle from the old description to the
\* same slot of the new one, so the text slot under the counter keeps the
\* handle attach installed; it creates, removes and replaces no live node
\* and changes nothing in the document but the counter's text value.
C9_CounterTextHandleKept ==
    [][ (phase = "attached" /\ phase' = "attached") =>
            /\ CounterTextSlot(dom) # None
            /\ CounterTextSlot(dom') = CounterTextSlot(dom)
            /\ CounterTextSlot(dom') = Some(LiveCounterText)
            /\ Handles(dom', "node") = Handles(dom, "node")
            /\ DOMAIN doc' = DOMAIN doc
            /\ \A h \in DOMAIN doc :
                  \/ doc'[h] = doc[h]
                  \/ h = LiveCounterText /\ doc'[h] = [doc[h] EXCEPT !.text = to_string(model')]
            /\ \A k \in 1..Len(patch_set') :
                  patch_set'[k].op \in {"Retain", "RetainText", "UpdateText",
                                        "RetainListener", "ParentUp"} ]_vars

C9_Witness ==
    /\ phase = "attached" /\ steps = 3 /\ model = 3
    /\ CounterTextSlot(dom) = Some(LiveCounterText)
    /\ doc[LiveCounterText].text = "3"

\* C10: after attach and after every completed dispatch the counter text
\* node of the live document shows the decimal string of the model, and the
\* live tree under the mount reads as render(model).
C10_LiveTreeMirrorsModel ==
    phase = "attached" =>
        /\ doc[LiveCounterText].kind = "Text"
        /\ doc[LiveCounterText].text = to_string(model)
        /\ model = 0 => doc[LiveCounterText].text = "0"
        /\ model = 1 => doc[LiveCounterText].text = "1"
        /\ model = -1 => doc[LiveCounterText].text = "-1"
        /\ model = 10 => doc[LiveCounterText].text = "10"
        /\ model = MaxI32 => doc[LiveCounterText].text = "2147483647"
        /\ LiveStreams(Created) = Strip(DomVec_dom_iter(render(sample, model)))

C10_Witness ==
    /\ phase = "attached" /\ steps = 1 /\ last_msg = Some("Increment")
    /\ model = 1 /\ doc[LiveCounterText].text = "1"

\* the same model rendered again and diffed against the retained description,
\* and the applier run on that patch set
SameModelPatchSet ==
    diff(DomVec_dom_iter(dom), DomVec_dom_iter(render(sample, model)))

SameModelPatched ==
    patch(PatchState(doc, closures, dom, render(sample, model), Mount),
          SameModelPatchSet)

OpsOf(ops, names) == SelectSeq(ops, LAMBDA op : op.op \in names)

C12_DispatchInOrder ==
    [][ /\ (steps' = steps + 1 /\ phase' = "attached") =>
              \E msg \in Msg : \E out \in update(model, msg) :
                  LET new_dom == render(sample, out.value)
                      ps == diff(DomVec_dom_iter(dom), DomVec_dom_iter(new_dom))
                      r == patch(PatchState(doc, closures, dom, new_dom, Mount), ps)
                  IN  /\ phase = "attached"
                      /\ last_msg' = Some(msg)
                      /\ ~out.panicked
                      /\ model' = out.value
                      /\ patch_set' = ps
                      /\ doc' = r.doc
                      /\ closures' = r.closures
                      /\ dom' = r.new
                      /\ old_dom' = r.old
        /\ phase' = "attached" =>
              Strip(DomVec_dom_iter(dom'))
                  = Strip(DomVec_dom_iter(render(sample, model'))) ]_vars

C12_Witness ==
    /\ phase = "attached" /\ steps = 2 /\ model = 2 /\ sample = "crate"
    /\ last_msg = Some("Increment")
    /\ Strip(DomVec_dom_iter(dom)) = ReferenceStream(2)
    /\ OpsOf(patch_set, {"UpdateText"}) # <<>>
    /\ OpsOf(patch_set, {"UpdateText"})[1].text = "2"

\* C13: a handler holds the mutable borrow of the App for as long as it is
\* active and its patch is in progress, and while the borrow is held no other
\* handler becomes active: every step taken then is the applier's next
\* operation, the return that releases the borrow, or an abort; a click or a
\* detach call delivered then aborts and leaves the model, both descriptions,
\* the document and the patch in progress as they were.
C13_NoReentry ==
    [][ /\ (borrow' = "mut") <=> (active' # None)
        /\ work' # None => borrow' = "mut"
        /\ (borrow = "free" /\ borrow' = "mut") => active = None /\ work = None
        /\ borrow = "mut" =>
              /\ active' \in {active, None}
              /\ model' = model
              /\ patch_set' = patch_set
              /\ \/ /\ work # None /\ work' # None
                    /\ work'[1].k = work[1].k + 1
                    /\ <<phase, active, borrow, steps>>' = <<phase, active, borrow, steps>>
                 \/ /\ work # None /\ work[1].k > Len(patch_set)
                    /\ <<borrow, active, work>>' = <<"free", None, None>>
                    /\ steps' = steps
                 \/ /\ phase' = "aborted"
                    /\ <<dom, old_dom, doc, closures, active, borrow>>'
                          = <<dom, old_dom, doc, closures, active, borrow>>
                    /\ work # None => /\ work' # None
                                      /\ work'[1].st = work[1].st
                                      /\ work'[1].k = work[1].k ]_vars

\* a "-" click delivered while the dispatch of Increment was patching
C13_Witness ==
    /\ phase = "aborted" /\ borrow = "mut"
    /\ active = Some(Handler("dispatch", Some("Increment")))
    /\ last_msg = Some("Decrement")
    /\ steps = 2 /\ model = 1
    /\ work # None /\ work[1].k > 1 /\ work[1].k <= Len(patch_set)
    /\ ~work[1].rejected

\* C14: a patch is all or nothing: when the host has rejected an operation of
\* a patch set, the live document and the closures are as the patch found
\* them.
C14_PatchAllOrNothing ==
    (work # None /\ work[1].rejected) =>
        /\ doc = work[1].before
        /\ work[1].st.doc = work[1].before

NoDup(seq) == Cardinality(Range(seq)) = Len(seq)

\* the handles held by the slots of the old and the new description together
\* (those of the patch in progress, if any) and of the description dropped last
Held(which) ==
    (IF work # None
     THEN Handles(work[1].st.old, which) \o Handles(work[1].st.new, which)
     ELSE Handles(dom, which)) \o Handles(old_dom, which)

\* the nodes the core has created that are in the live tree
CoreNodes == Live(doc) \ ({Mount} \cup Range(original))

\* the closures registered as listeners on nodes of the live tree
Registered ==
    UNION {{doc[h].listeners[i].closure : i \in 1..Len(doc[h].listeners)} :
              h \in Live(doc)}

Occurrences(seq, x) == Cardinality({i \in 1..Len(seq) : seq[i] = x})

\* C18: in every state of attach, dispatch and detach, a patch in progress
\* or aborted included, no node handle and no closure is held by two slots
\* of the old and new descriptions; between operations every node the core
\* created that is in the live tree, and every closure registered there, is
\* held by exactly one slot of the retained description.
C18_HandlesSinglyOwned ==
    /\ NoDup(Held("node"))
    /\ NoDup(Held("closure"))
    /\ (active = None /\ phase \in {"attached", "detached"}) =>
          /\ \A h \in CoreNodes : Occurrences(Handles(dom, "node"), h) = 1
          /\ \A c \in Registered : Occurrences(Handles(dom, "closure"), c) = 1
          /\ phase = "attached" => CoreNodes # {} /\ Registered # {}

\* a dispatch half way: some handles moved to the new description, the rest
\* still in the old one
C18_Witness ==
    /\ work # None /\ active # None /\ active[1].handler = "dispatch"
    /\ Len(Handles(work[1].st.old, "node")) = 3
    /\ Len(Handles(work[1].st.new, "node")) = 3
    /\ Len(Handles(work[1].st.new, "closure")) = 1
    /\ NoDup(Held("node"))
    /\ Range(Held("node")) = CoreNodes

\* the "+" and the "-" button, found in the live document
PlusButton ==
    IF sample = "crate" THEN Created[1] ELSE doc[Created[1]].children[1]

MinusButton ==
    IF sample = "crate" THEN Created[3] ELSE doc[Created[1]].children[3]

\* the "+" button carries the one click listener whose closure was created
\* first and dispatches Increment, the "-" button the one created second,
\* which dispatches Decrement; there is no other listener and no other closure
ButtonsListen ==
    /\ doc[PlusButton].name = "button"
    /\ doc[doc[PlusButton].children[1]].text = "+"
    /\ doc[PlusButton].listeners = <<Listener("click", 0)>>
    /\ doc[MinusButton].name = "button"
    /\ doc[doc[MinusButton].children[1]].text = "-"
    /\ doc[MinusButton].listeners = <<Listener("click", 1)>>
    /\ DOMAIN closures = {0, 1}
    /\ closures[0] = Closure("Increment")
    /\ closures[1] = Closure("Decrement")
    /\ \A h \in DOMAIN doc \ {PlusButton, MinusButton} : doc[h].listeners = <<>>
    /\ Clickable = {Listener("click", 0), Listener("click", 1)}

\* C19: from attach until detach, whatever dispatches happen, the "+" button
\* and the "-" button each carry exactly one click listener, the closure
\* attach installed on it; a dispatch adds, removes and replaces no listener
\* and no closure; the "+" closure delivers Increment and the "-" closure
\* Decrement, and these are the only messages a click delivers.
C19_OneListenerPerButton ==
    [][ /\ phase' = "attached" => ButtonsListen'
        /\ (phase = "attached" /\ phase' = "attached") =>
              /\ closures' = closures
              /\ PlusButton' = PlusButton
              /\ MinusButton' = MinusButton
              /\ \A h \in DOMAIN doc : doc'[h].listeners = doc[h].listeners
              /\ \/ last_msg' = Some(closures[doc[PlusButton].listeners[1].closure].message)
                    /\ last_msg' = Some("Increment")
                 \/ last_msg' = Some(closures[doc[MinusButton].listeners[1].closure].message)
                    /\ last_msg' = Some("Decrement") ]_vars

C19_Witness ==
    /\ phase = "attached" /\ steps = 3 /\ model = -1
    /\ last_msg = Some("Decrement")
    /\ ButtonsListen

-----------------------------------------------------------------------------
(* The iterator on its own: a description is built, then one traversal is  *)
(* collected from it (as the tests do with dom_iter().collect()).          *)

TreeNodes == {Node_Text("t"), Node_Element("div")}
TreeEvents == {None, Some(Event("click", "Increment"))}

SeqsUpTo(S, k) == UNION {[1..m -> S] : m \in 0..k}

\* nodes without children
Level0 == {Dom(nd, ev, <<>>) : nd \in TreeNodes, ev \in TreeEvents}

\* nodes with up to MaxKids children, none of which has children
Level1 == {Dom(nd, ev, ch) : nd \in TreeNodes, ev \in TreeEvents,
                             ch \in SeqsUpTo(Level0, MaxKids)}

\* three levels: a root over a node of Level1 and a leaf, in both orders
Level2 ==
    LET small == {d \in Level1 : Len(d.children) <= 1}
    IN  UNION {{Dom(Node_Element("ul"), ev, <<a, b>>),
                Dom(Node_Element("ul"), ev, <<b, a>>)} :
                    ev \in TreeEvents, a \in small, b \in Level0}

Trees == Level1 \cup Level2

InitIter ==
    /\ sample = "crate"
    /\ phase = "new"
    /\ model = Model_new
    /\ dom = <<>>
    /\ old_dom = <<>>
    /\ doc = MountDoc(0)
    /\ original = <<>>
    /\ closures = <<>>
    /\ patch_set = <<>>
    /\ last_msg = None
    /\ steps = 0
    /\ borrow = "free"
    /\ active = None
    /\ work = None
    /\ tree \in Trees
    /\ stream = None
    /\ slot_op = None

\* let items: Vec<DomItem<_>> = tree.dom_iter().collect()
Iterate ==
    /\ stream = None
    /\ stream' = Some(Dom_dom_iter(tree, <<1>>))
    /\ UNCHANGED <<appVars, stepVars, tree, slot_op>>

NextIter == Iterate

SpecIter == InitIter /\ [][NextIter]_vars

Count(s, P(_)) == Cardinality({i \in 1..Len(s) : P(s[i])})

IsUp(item) == item.type = "Up"

IsEvent(item) == item.type = "Event"

\* the number of nodes / events of a description
RECURSIVE NodeCount(_)
NodeCount(d) ==
    LET RECURSIVE kids(_)
        kids(i) == IF i > Len(d.children) THEN 0
                   ELSE NodeCount(d.children[i]) + kids(i + 1)
    IN  1 + kids(1)

\* the description a stream is the pre-order traversal of, read back item by
\* item: an opener, the event that follows it if any, the subtrees up to the
\* Up that closes the opener
RECURSIVE ParseNode(_, _), ParseKids(_, _)
ParseNode(s, i) ==
    LET nd == IF s[i].type = "Text" THEN Node_Text(s[i].text)
              ELSE Node_Element(s[i].element)
        hasEvent == s[i + 1].type = "Event"
        ev == IF hasEvent THEN Some(Event(s[i + 1].trigger, s[i + 1].handler))
              ELSE None
        kids == ParseKids(s, IF hasEvent THEN i + 2 ELSE i + 1)
    IN  [dom |-> Dom(nd, ev, kids.doms), next |-> kids.next + 1]

ParseKids(s, i) ==
    IF s[i].type = "Up" THEN [doms |-> <<>>, next |-> i]
    ELSE LET first == ParseNode(s, i)
             rest == ParseKids(s, first.next)
         IN  [doms |-> <<first.dom>> \o rest.doms, next |-> rest.next]

WellFormed(s) ==
    /\ Count(s, IsUp) = Count(s, IsOpener)
    /\ \A k \in 1..Len(s) :
          Count(SubSeq(s, 1, k), IsUp) <= Count(SubSeq(s, 1, k), IsOpener)
    /\ \A i \in 1..Len(s) :
          IsEvent(s[i]) => /\ i > 1
                           /\ IsOpener(s[i - 1])
                           /\ s[i].closure.cell = s[i - 1].node.cell

\* C4: the stream dom_iter yields for any description is finite and well
\* formed: as many Ups as openers, no prefix with more Ups than openers, the
\* event of a node right after its opener, and the nodes in pre-order, each
\* opener followed by its subtree and then its one Up.
C4_StreamWellFormed ==
    stream # None =>
        LET s == stream[1]
        IN  /\ WellFormed(s)
            /\ Count(s, IsOpener) = NodeCount(tree)
            /\ Len(s) = 2 * NodeCount(tree) + Cells(<<tree>>, "closure")
            /\ s[Len(s)] = DomItem_Up
            /\ ParseNode(s, 1) = [dom |-> tree, next |-> Len(s) + 1]

C4_Witness ==
    /\ stream # None
    /\ tree \in Level2
    /\ Count(stream[1], IsEvent) = 3
    /\ Len(stream[1]) = 11
    /\ WellFormed(stream[1])

-----------------------------------------------------------------------------
(* The iterator of a collection on its own: a DomVec is built, then one    *)
(* traversal is collected from it.                                         *)

\* the elements a collection is built from: a node with at most one child
VecElems == {d \in Level1 : Len(d.children) <= 1}

InitVec ==
    /\ sample = "crate"
    /\ phase = "new"
    /\ model = Model_new
    /\ dom \in SeqsUpTo(VecElems, MaxVec)
    /\ old_dom = <<>>
    /\ doc = MountDoc(0)
    /\ original = <<>>
    /\ closures = <<>>
    /\ patch_set = <<>>
    /\ last_msg = None
    /\ steps = 0
    /\ borrow = "free"
    /\ active = None
    /\ work = None
    /\ tree = IdleTree
    /\ stream = None
    /\ slot_op = None

\* let items: Vec<DomItem<_>> = dom.dom_iter().collect()
IterateVec ==
    /\ stream = None
    /\ stream' = Some(DomVec_dom_iter(dom))
    /\ UNCHANGED <<appVars, stepVars, tree, slot_op>>

NextVec == IterateVec

SpecVec == InitVec /\ [][NextVec]_vars

\* the streams of the first n elements of v, one after the other
RECURSIVE ConcatStreams(_, _)
ConcatStreams(v, n) ==
    IF n = 0 THEN <<>>
    ELSE ConcatStreams(v, n - 1) \o Dom_dom_iter(v[n], <<n>>)

RECURSIVE NodeCounts(_)
NodeCounts(v) == IF v = <<>> THEN 0 ELSE NodeCount(Head(v)) + NodeCounts(Tail(v))

\* C15: the stream of a DomVec is the streams of its elements one after the
\* other in collection order and nothing else: it has one opener and one Up
\* per node of the elements, starts with the opener of the first element,
\* ends with the Up of the last, and is empty for the empty collection.
C15_DomVecConcatenates ==
    stream # None =>
        LET s == stream[1]
        IN  /\ s = ConcatStreams(dom, Len(dom))
            /\ Count(s, IsOpener) = NodeCounts(dom)
            /\ Count(s, IsUp) = NodeCounts(dom)
            /\ Len(s) = 2 * NodeCounts(dom) + Cells(dom, "closure")
            /\ dom = <<>> => s = <<>>
            /\ dom # <<>> =>
                  /\ s[1] = NodeItem(dom[1].node, <<1>>)
                  /\ s[Len(s)] = DomItem_Up
                  /\ MatchUp(s, 1) = Len(Dom_dom_iter(dom[1], <<1>>))
                  /\ Len(dom) = 1 => MatchUp(s, 1) = Len(s)
                  /\ Len(dom) >= 2 => ParseNode(s, MatchUp(s, 1) + 1).dom = dom[2]

C15_Witness ==
    /\ stream # None /\ Len(dom) = 2 /\ dom[1] # dom[2]
    /\ Len(dom[2].children) = 1
    /\ stream[1] = Dom_dom_iter(dom[1], <<1>>) \o Dom_dom_iter(dom[2], <<2>>)
    /\ Len(stream[1]) = 12

-----------------------------------------------------------------------------
(* The storage slots on their own: a description is built with empty       *)
(* cells, traversed, and the closure of one yielded slot is called; the    *)
(* items, which borrow the description, are dropped before it is traversed *)
(* again.                                                                  *)

\* freshly constructed descriptions: every cell is None
SlotTrees == VecElems \cup {button("+", "Increment"), counter(Model_new)}

SlotOf(item) == IF item.type = "Event" THEN item.closure ELSE item.node

KindOf(item) == IF item.type = "Event" THEN "closure" ELSE "node"

SlotOp(op, item, h) ==
    [op |-> op, storage |-> SlotOf(item), which |-> KindOf(item), handle |-> h]

InitSlots ==
    /\ sample = "crate"
    /\ phase = "new"
    /\ model = Model_new
    /\ dom = <<>>
    /\ old_dom = <<>>
    /\ doc = MountDoc(0)
    /\ original = <<>>
    /\ closures = <<>>
    /\ patch_set = <<>>
    /\ last_msg = None
    /\ steps = 0
    /\ borrow = "free"
    /\ active = None
    /\ work = None
    /\ tree \in SlotTrees
    /\ stream = None
    /\ slot_op = None

\* the closure of a yielded Storage::Read is called
CallTake ==
    /\ stream # None
    /\ \E k \in 1..Len(stream[1]) :
        LET item == stream[1][k]
            t == Storage_take(<<tree>>, SlotOf(item), KindOf(item))
        IN  /\ item.type # "Up"
            /\ SlotOf(item).rw = "Read"
            /\ tree' = t.dom[1]
            /\ slot_op' = Some(SlotOp("take", item, t.handle))
    /\ stream' = None
    /\ UNCHANGED <<appVars, stepVars>>

\* the closure of a yielded Storage::Write is called with a handle
CallInstall ==
    /\ stream # None
    /\ \E k \in 1..Len(stream[1]), h \in 1..MaxHandle :
        LET item == stream[1][k]
        IN  /\ item.type # "Up"
            /\ SlotOf(item).rw = "Write"
            /\ tree' = Storage_install(<<tree>>, SlotOf(item), KindOf(item), h)[1]
            /\ slot_op' = Some(SlotOp("install", item, h))
    /\ stream' = None
    /\ UNCHANGED <<appVars, stepVars>>

NextSlots == Iterate \/ CallTake \/ CallInstall

SpecSlots == InitSlots /\ [][NextSlots]_vars

\* the slot the stream s yields for the cell a slot call was made on
YieldedFor(s, o) ==
    LET k == CHOOSE k \in 1..Len(s) :
                /\ s[k].type # "Up"
                /\ KindOf(s[k]) = o.which
                /\ SlotOf(s[k]).cell = o.storage.cell
    IN  SlotOf(s[k])

\* C17: a traversal yields Read for a cell that holds a handle and Write for
\* an empty one, so only Write for a fresh description; take, called on a
\* Read slot, returns the handle the cell held and leaves that cell (and no
\* other) empty, and the next traversal yields Write for it; install, called
\* on a Write slot, puts the handle in that cell (and no other), and the next
\* traversal yields Read for it.
C17_SlotsFollowCells ==
    [][ /\ stream' # None =>
              /\ \A k \in 1..Len(stream'[1]) :
                    stream'[1][k].type # "Up" =>
                        /\ SlotOf(stream'[1][k]).rw \in {"Read", "Write"}
                        /\ SlotOf(stream'[1][k]).rw = "Read" <=>
                              GetCell(<<tree'>>, SlotOf(stream'[1][k]).cell,
                                      KindOf(stream'[1][k])) # None
              /\ slot_op' = None =>
                    \A k \in 1..Len(stream'[1]) :
                        stream'[1][k].type # "Up" => SlotOf(stream'[1][k]).rw = "Write"
              /\ slot_op' # None =>
                    YieldedFor(stream'[1], slot_op'[1]).rw
                        = (IF slot_op'[1].op = "take" THEN "Write" ELSE "Read")
        /\ slot_op' # slot_op =>
              LET o == slot_op'[1]
                  before == GetCell(<<tree>>, o.storage.cell, o.which)
              IN  /\ stream # None /\ stream' = None
                  /\ o.op = "take" =>
                        /\ o.storage.rw = "Read"
                        /\ before = Some(o.handle)
                        /\ tree' = SetCell(<<tree>>, o.storage.cell, o.which, None)[1]
                  /\ o.op = "install" =>
                        /\ o.storage.rw = "Write"
                        /\ before = None
                        /\ tree' = SetCell(<<tree>>, o.storage.cell, o.which,
                                           Some(o.handle))[1] ]_vars

\* the closure of a child's event installed, its node installed, the
\* closure taken again and the description traversed once more
C17_Witness ==
    /\ stream # None /\ slot_op # None
    /\ slot_op[1].op = "take" /\ slot_op[1].which = "closure"
    /\ slot_op[1].handle = 2 /\ Len(slot_op[1].storage.cell) = 2
    /\ YieldedFor(stream[1], slot_op[1]).rw = "Write"
    /\ \E k \in 1..Len(stream[1]) :
          stream[1][k].type = "Element" /\ stream[1][k].node.rw = "Read"

=============================================================================
